---- MODULE Spec2Model ----
(***************************************************************************)
(* Model of the browser-side scripts of the Stellar AIz site:              *)
(*   docs/assets/js/i18n.js        locale detection, redirect, switching   *)
(*   docs/assets/js/components.js  header/footer fragment loader           *)
(* Strings the code inspects character by character (pathname, hash,       *)
(* navigator.language, URLs) are sequences of one-character strings.       *)
(* Locale codes and component names are compared whole, so they are atoms. *)
(***************************************************************************)
EXTENDS Integers, Sequences, FiniteSets, TLC

VARIABLES
  pathname,        \* window.location.pathname of the page on display
  hash,            \* window.location.hash ("" or "#...")
  navigatorLanguage, \* navigator.language || navigator.userLanguage ("" when absent)
  storage,         \* localStorage item under STORAGE_KEY, Null when there is none
  storageOK,       \* FALSE when every localStorage access throws
  page,            \* "loading": DOMContentLoaded not dispatched yet, "ready": dispatched, "external": left the site
  pending,         \* navigation started by this page and not yet committed
  warned,          \* console.warn of i18n.js was called on this page
  raised,          \* a call into i18n.js on this page ended with an exception
  lpc,             \* loadAll: "idle", "awaiting" (at Promise.all), "done"
  cst,             \* per component: position of its loadComponent call
  placeholder,     \* per component: did document.querySelector find its placeholder
  content,         \* per component: innerHTML of its placeholder
  flowbite,        \* did initFlowbite find the global function initFlowbite
  navLinks,        \* data-page values of the .nav-link[data-page] elements highlightActiveNav found
  active,          \* data-page values of the nav links that carry the active marking
  trace            \* what the loader did on this page, in order

vars == <<pathname, hash, navigatorLanguage, storage, storageOK, page, pending,
          warned, raised, lpc, cst, placeholder, content, flowbite, navLinks, active, trace>>

i18nVars == <<pathname, hash, navigatorLanguage, storage, storageOK, page, pending,
              warned, raised>>
loaderVars == <<lpc, cst, placeholder, content, flowbite, navLinks, active, trace>>

----------------------------------------------------------------------------
(* Bounds *)

MaxLen == 3            \* every pathname over PathChars up to this length is visited

PathChars == {"/", "e", "n", "x"}

----------------------------------------------------------------------------
(* JavaScript string primitives *)

Null == "null"

StartsWith(s, p) == Len(s) >= Len(p) /\ SubSeq(s, 1, Len(p)) = p

Includes(s, sub) ==
  \E i \in 1..(Len(s) - Len(sub) + 1) : SubSeq(s, i, i + Len(sub) - 1) = sub

Substring(s, k) == SubSeq(s, k + 1, Len(s))

LowerChar(c) ==
  CASE c = "E" -> "e"
    [] c = "N" -> "n"
    [] c = "U" -> "u"
    [] c = "S" -> "s"
    [] OTHER -> c

ToLowerCase(s) == [i \in 1..Len(s) |-> LowerChar(s[i])]

\* The part of a URL before its first "#", and the rest.
RECURSIVE FirstHashAt(_, _)
FirstHashAt(url, i) ==
  IF i > Len(url) THEN Len(url) + 1
  ELSE IF url[i] = "#" THEN i
  ELSE FirstHashAt(url, i + 1)

UrlPath(url) == SubSeq(url, 1, FirstHashAt(url, 1) - 1)
UrlHash(url) ==
  LET h == SubSeq(url, FirstHashAt(url, 1), Len(url))
  IN IF Len(h) <= 1 THEN <<>> ELSE h

----------------------------------------------------------------------------
(* Inputs *)

RECURSIVE SeqsUpTo(_, _)
SeqsUpTo(S, n) ==
  IF n = 0 THEN {<<>>}
  ELSE LET shorter == SeqsUpTo(S, n - 1)
       IN shorter \cup {Append(s, c) : s \in {t \in shorter : Len(t) = n - 1}, c \in S}

ShortPaths == {<<"/">> \o s : s \in SeqsUpTo(PathChars, MaxLen - 1)}

Root          == <<"/">>
EnBare        == <<"/", "e", "n">>
EnRoot        == <<"/", "e", "n", "/">>
ServicesPath  == <<"/", "s", "e", "r", "v", "i", "c", "e", "s", "/">>
AboutPath     == <<"/", "p", "a", "g", "e", "s", "/", "a", "b", "o", "u", "t", "/">>
HomePagePath  == <<"/", "p", "a", "g", "e", "s", "/", "h", "o", "m", "e", "/">>
NoTagPath     == <<"/", "p", "a", "g", "e", "s", "/", "/">>
IndexPath     == <<"/", "i", "n", "d", "e", "x", ".", "h", "t", "m", "l">>
EnX           == <<"/", "e", "n", "/", "x">>

SamplePaths ==
  { Root, EnBare, EnRoot, ServicesPath, AboutPath, HomePagePath, NoTagPath, IndexPath,
    EnBare \o ServicesPath, EnBare \o AboutPath, EnBare \o IndexPath,
    EnBare \o EnBare, EnBare \o EnX }

Paths == ShortPaths \cup SamplePaths

Hashes == {<<>>, <<"#", "a">>}

NavigatorLanguages ==
  { <<>>, <<"j", "a">>, <<"E", "N", "-", "U", "S">>, <<"e", "n">> }

LangArgs == {"ja", "en", "fr"}

----------------------------------------------------------------------------
(* i18n.js *)

LANGUAGES == {"ja", "en"}
DEFAULT_LANGUAGE == "ja"

getLanguageFromURL(path) ==
  IF StartsWith(path, EnRoot) \/ path = EnBare THEN "en" ELSE "ja"

\* mutant: the preference is read under a key nothing is written to
getSavedLanguageWrongKey == Null

\* mutant: localStorage.getItem is called outside any try
getSavedLanguageUncaught ==
  IF storageOK THEN [raised |-> FALSE, value |-> storage]
  ELSE [raised |-> TRUE, value |-> Null]

\* how a call of getSavedLanguage ends: localStorage.getItem throws when storage
\* is unavailable, and the catch turns that into null
getSavedLanguageOutcome ==
  IF storageOK THEN [raised |-> FALSE, value |-> storage]
  ELSE [raised |-> FALSE, value |-> Null]

getSavedLanguage == getSavedLanguageOutcome.value

\* how a call of saveLanguage(lang) ends, with the item under STORAGE_KEY after it:
\* localStorage.setItem throws when storage is unavailable, and the catch drops that
saveLanguageOutcome(lang) ==
  IF storageOK THEN [raised |-> FALSE, item |-> lang]
  ELSE [raised |-> FALSE, item |-> storage]

\* the item under STORAGE_KEY once saveLanguage(lang) returned
saveLanguage(lang) == saveLanguageOutcome(lang).item

getBrowserLanguage ==
  IF navigatorLanguage # <<>> /\ StartsWith(ToLowerCase(navigatorLanguage), <<"e", "n">>)
  THEN "en" ELSE "ja"

getRelativePath(path) ==
  IF StartsWith(path, EnRoot) THEN Substring(path, 3)
  ELSE IF path = EnBare THEN Root
  ELSE path

\* mutant: the hash is left off the URL
buildLanguageURLDropsHash(targetLang, path, h) ==
  LET relativePath == getRelativePath(path)
  IN IF targetLang = "en"
     THEN EnBare \o (IF relativePath = Root THEN Root ELSE relativePath)
     ELSE relativePath

buildLanguageURL(targetLang, path, h) ==
  LET relativePath == getRelativePath(path)
  IN IF targetLang = "en"
     THEN EnBare \o (IF relativePath = Root THEN Root ELSE relativePath) \o h
     ELSE relativePath \o h

\* mutant: the saved preference is not consulted
shouldAutoRedirectIgnoresSaved ==
  getLanguageFromURL(pathname) = "ja" /\ getBrowserLanguage = "en"

shouldAutoRedirect ==
  IF getSavedLanguage # Null THEN FALSE
  ELSE getLanguageFromURL(pathname) = "ja" /\ getBrowserLanguage = "en"

NoNavigation == [kind |-> "none", url |-> <<>>]

\* location.replace(url) / location.href = url: the navigation this page has started
Navigation(kind, url) == [kind |-> kind, url |-> url]

\* mutant: the redirect goes to the URL of the default locale, the page itself
handleAutoRedirectToJa ==
  IF shouldAutoRedirect
  THEN Navigation("replace", buildLanguageURL("ja", pathname, hash))
  ELSE pending

\* mutant: the redirect assigns location.href, which adds a history entry
handleAutoRedirectAssignsHref ==
  IF shouldAutoRedirect
  THEN Navigation("href", buildLanguageURL("en", pathname, hash))
  ELSE pending

\* handleAutoRedirect's return value is shouldAutoRedirect; its effect is on pending
handleAutoRedirect ==
  IF shouldAutoRedirect
  THEN Navigation("replace", buildLanguageURL("en", pathname, hash))
  ELSE pending

\* mutant: the current locale is saved on every page load
initAlwaysSaves ==
  /\ pending' = handleAutoRedirect
  /\ storage' = IF shouldAutoRedirect THEN storage
                ELSE saveLanguage(getLanguageFromURL(pathname))
  /\ UNCHANGED <<warned, raised>>

\* an exception leaves init: from getSavedLanguage, or from the saveLanguage it calls
initRaises ==
  \/ getSavedLanguageOutcome.raised
  \/ /\ ~shouldAutoRedirect
     /\ getSavedLanguage = Null
     /\ saveLanguageOutcome(getLanguageFromURL(pathname)).raised

init ==
  /\ IF getSavedLanguageOutcome.raised
     THEN UNCHANGED <<storage, pending>>
     ELSE /\ pending' = handleAutoRedirect
          /\ storage' = IF shouldAutoRedirect THEN storage
                        ELSE IF getSavedLanguage = Null
                             THEN saveLanguage(getLanguageFromURL(pathname))
                             ELSE storage
  /\ raised' = (raised \/ initRaises)
  /\ UNCHANGED warned

\* mutant: the target is compared with the pathname alone, without the hash
switchLanguageComparesPathname(targetLang) ==
  IF targetLang \notin LANGUAGES
  THEN warned' = TRUE /\ UNCHANGED <<storage, pending, raised>>
  ELSE LET targetURL == buildLanguageURL(targetLang, pathname, hash)
           currentPath == pathname
       IN /\ storage' = saveLanguage(targetLang)
          /\ pending' = IF targetURL # currentPath
                        THEN Navigation("href", targetURL)
                        ELSE pending
          /\ UNCHANGED <<warned, raised>>

\* mutant: the preference is saved before the target is checked against LANGUAGES
switchLanguageSavesFirst(targetLang) ==
  IF targetLang \notin LANGUAGES
  THEN /\ storage' = saveLanguage(targetLang)
       /\ warned' = TRUE
       /\ UNCHANGED <<pending, raised>>
  ELSE LET targetURL == buildLanguageURL(targetLang, pathname, hash)
           currentPath == pathname \o hash
       IN /\ storage' = saveLanguage(targetLang)
          /\ pending' = IF targetURL # currentPath
                        THEN Navigation("href", targetURL)
                        ELSE pending
          /\ UNCHANGED <<warned, raised>>

\* mutant: the target is not checked against LANGUAGES
switchLanguageUnvalidated(targetLang) ==
  LET targetURL == buildLanguageURL(targetLang, pathname, hash)
      currentPath == pathname \o hash
  IN /\ storage' = saveLanguage(targetLang)
     /\ pending' = IF targetURL # currentPath
                   THEN Navigation("href", targetURL)
                   ELSE pending
     /\ UNCHANGED <<warned, raised>>

switchLanguage(targetLang) ==
  IF targetLang \notin LANGUAGES
  THEN warned' = TRUE /\ UNCHANGED <<storage, pending, raised>>
  ELSE LET targetURL == buildLanguageURL(targetLang, pathname, hash)
           currentPath == pathname \o hash
       IN /\ storage' = saveLanguage(targetLang)
          /\ pending' = IF saveLanguageOutcome(targetLang).raised THEN pending
                        ELSE IF targetURL # currentPath
                        THEN Navigation("href", targetURL)
                        ELSE pending
          /\ raised' = (raised \/ saveLanguageOutcome(targetLang).raised)
          /\ UNCHANGED warned

----------------------------------------------------------------------------
(* components.js *)

componentsPath == <<"/components">>

components ==
  [ header |-> [selector |-> "#header-placeholder", file |-> <<"header", ".html">>],
    footer |-> [selector |-> "#footer-placeholder", file |-> <<"footer", ".html">>] ]

\* Object.keys(this.components), in insertion order
ComponentNames == <<"header", "footer">>

Components == {ComponentNames[i] : i \in 1..Len(ComponentNames)}

\* data-page values of the .nav-link elements a page can carry
Home     == <<"h", "o", "m", "e">>
About    == <<"a", "b", "o", "u", "t">>
NavTags  == {Home, About, <<>>}

\* String.prototype.replace(tok, ''): the first occurrence only
RECURSIVE RemoveFirst(_, _)
RemoveFirst(s, tok) ==
  IF s = <<>> THEN <<>>
  ELSE IF Head(s) = tok THEN Tail(s)
  ELSE <<Head(s)>> \o RemoveFirst(Tail(s), tok)

\* mutant: the bare path /en is not taken for an English page
isEnglishPageUnderEnOnly(path) == StartsWith(path, EnRoot)

isEnglishPage(path) == StartsWith(path, EnRoot) \/ path = EnBare

\* mutant: the locale tag is appended to the file name, after its extension
getComponentFileAppendsTag(name, path) ==
  IF name \notin DOMAIN components THEN <<Null>>
  ELSE IF isEnglishPage(path)
       THEN components[name].file \o <<"-en", ".html">>
       ELSE components[name].file

\* file names are sequences of the pieces the code handles: base, "-en", ".html"
getComponentFile(name, path) ==
  IF name \notin DOMAIN components THEN <<Null>>
  ELSE IF isEnglishPage(path)
       THEN RemoveFirst(components[name].file, ".html") \o <<"-en", ".html">>
       ELSE components[name].file

Original == <<"original">>          \* the markup the page shipped in a placeholder

\* response.text() of a fetched file
Markup(url) == <<"markup of">> \o url

NotCalled == [st |-> "idle", url |-> <<>>, http |-> "none", body |-> "none"]

\* loadComponent(name) up to its first await (or its early return)
loadComponentStart(name, found) ==
  IF name \notin DOMAIN components THEN [NotCalled EXCEPT !.st = "unknown"]
  ELSE IF ~found THEN [NotCalled EXCEPT !.st = "missing"]
  ELSE [NotCalled EXCEPT !.st = "fetching",
                         !.url = componentsPath \o <<"/">>
                                  \o getComponentFile(name, pathname)]

\* mutant: the status of the response is not looked at
responseOkUnchecked(http) == TRUE

\* if (!response.ok) throw
responseOk(http) == http = "200"

Settled(c) == cst[c].st \in {"unknown", "missing", "failed", "loaded"}

\* mutant: loadAll goes on as soon as one load is over (Promise.race)
anySettled == \E c \in Components : Settled(c)

\* await Promise.all(promises)
allSettled == \A c \in Components : Settled(c)

\* mutant: the path is compared as it is, with its /en prefix
normalizedPathKeepsPrefix(path) == path

\* currentPath after the normalisation at the top of highlightActiveNav
normalizedPath(path) ==
  IF isEnglishPage(path)
  THEN LET stripped == IF StartsWith(path, EnBare) THEN Substring(path, 3) ELSE path
       IN IF stripped = <<>> THEN Root ELSE stripped
  ELSE path

isActive(tag, currentPath) ==
  IF tag = Home /\ (currentPath = Root \/ currentPath = IndexPath) THEN TRUE
  ELSE tag # <<>> /\ Includes(currentPath, <<"/", "p", "a", "g", "e", "s", "/">> \o tag \o <<"/">>)

\* the links highlightActiveNav marks among those document.querySelectorAll returns
highlightActiveNav(links) == {tag \in links : isActive(tag, normalizedPath(pathname))}

\* what ComponentLoader.initFlowbite leaves in the trace; defined: typeof initFlowbite === 'function'
initFlowbite(defined) ==
  <<"initFlowbite">> \o (IF defined THEN <<"flowbite">> ELSE <<>>)

----------------------------------------------------------------------------------------------------------------------------------------------
(* The page lifecycle *)

FreshLoader ==
  /\ lpc' = "idle"
  /\ cst' = [c \in Components |-> NotCalled]
  /\ placeholder' = [c \in Components |-> FALSE]
  /\ content' = [c \in Components |-> Original]
  /\ flowbite' = FALSE
  /\ navLinks' = {}
  /\ active' = {}
  /\ trace' = <<>>

LoadPage(p, h) ==
  /\ pathname' = p
  /\ hash' = h
  /\ page' = "loading"
  /\ pending' = NoNavigation
  /\ warned' = FALSE
  /\ raised' = FALSE
  /\ FreshLoader

Init ==
  /\ pathname \in Paths
  /\ hash \in Hashes
  /\ navigatorLanguage \in NavigatorLanguages
  /\ storage = Null
  /\ storageOK \in BOOLEAN
  /\ page = "loading"
  /\ pending = NoNavigation
  /\ warned = FALSE
  /\ raised = FALSE
  /\ lpc = "idle"
  /\ cst = [c \in Components |-> NotCalled]
  /\ placeholder = [c \in Components |-> FALSE]
  /\ content = [c \in Components |-> Original]
  /\ flowbite = FALSE
  /\ navLinks = {}
  /\ active = {}
  /\ trace = <<>>

\* the user opens a page of the site (typed URL, link, reload)
Visit(p, h) ==
  /\ LoadPage(p, h)
  /\ UNCHANGED <<navigatorLanguage, storage, storageOK>>

\* the user changes the browser's language setting
SetNavigatorLanguage(t) ==
  /\ navigatorLanguage # t
  /\ navigatorLanguage' = t
  /\ UNCHANGED <<pathname, hash, storage, storageOK, page, pending, warned, raised>>
  /\ UNCHANGED loaderVars

\* loader.loadAll() up to its await: every loadComponent call runs to its first await;
\* found[c]: document.querySelector returned the placeholder of c
loadAllStart(found) ==
  /\ lpc' = "awaiting"
  /\ placeholder' = found
  /\ cst' = [c \in Components |-> loadComponentStart(c, found[c])]
  /\ trace' = trace \o
       SelectSeq([i \in 1..Len(ComponentNames) |-> <<"fetch", ComponentNames[i]>>],
                 LAMBDA e : found[e[2]])
  /\ UNCHANGED <<content, flowbite, navLinks, active>>

\* DOMContentLoaded on a page that carries i18n.js
I18nListener ==
  /\ page = "loading"
  /\ page' = "ready"
  /\ init
  /\ UNCHANGED <<pathname, hash, navigatorLanguage, storageOK>>
  /\ UNCHANGED loaderVars

\* DOMContentLoaded on a page that carries components.js
ComponentsListener(found) ==
  /\ page = "loading"
  /\ page' = "ready"
  /\ loadAllStart(found)
  /\ UNCHANGED <<pathname, hash, navigatorLanguage, storage, storageOK, pending,
                 warned, raised>>

\* DOMContentLoaded on a page that carries both: the listener of i18n.js, then that of components.js
DOMContentLoaded(found) ==
  /\ page = "loading"
  /\ page' = "ready"
  /\ init
  /\ loadAllStart(found)
  /\ UNCHANGED <<pathname, hash, navigatorLanguage, storageOK>>

\* the fetch of a component settles: rejected, or a response with a status
FetchSettled(c, http) ==
  /\ page = "ready"
  /\ cst[c].st = "fetching"
  /\ cst' = [cst EXCEPT ![c].http = http,
                        ![c].st = IF http # "reject" /\ responseOk(http)
                                  THEN "reading" ELSE "failed"]
  /\ UNCHANGED <<lpc, placeholder, content, flowbite, navLinks, active, trace>>
  /\ UNCHANGED i18nVars

\* mutant: the event is dispatched in a finally block, also when the body never arrived
TextSettledDispatchesAlways(c, ok) ==
  /\ page = "ready"
  /\ cst[c].st = "reading"
  /\ IF ok
     THEN /\ cst' = [cst EXCEPT ![c].body = "ok", ![c].st = "loaded"]
          /\ content' = [content EXCEPT ![c] = Markup(cst[c].url)]
          /\ trace' = trace \o << <<"innerHTML", c>>, <<"componentLoaded", c>> >>
     ELSE /\ cst' = [cst EXCEPT ![c].body = "reject", ![c].st = "failed"]
          /\ trace' = trace \o << <<"componentLoaded", c>> >>
          /\ UNCHANGED content
  /\ UNCHANGED <<lpc, placeholder, flowbite, navLinks, active>>
  /\ UNCHANGED i18nVars

\* response.text() settles
TextSettled(c, ok) ==
  /\ page = "ready"
  /\ cst[c].st = "reading"
  /\ IF ok
     THEN /\ cst' = [cst EXCEPT ![c].body = "ok", ![c].st = "loaded"]
          /\ content' = [content EXCEPT ![c] = Markup(cst[c].url)]
          /\ trace' = trace \o << <<"innerHTML", c>>, <<"componentLoaded", c>> >>
     ELSE /\ cst' = [cst EXCEPT ![c].body = "reject", ![c].st = "failed"]
          /\ UNCHANGED <<content, trace>>
  /\ UNCHANGED <<lpc, placeholder, flowbite, navLinks, active>>
  /\ UNCHANGED i18nVars

\* loadAll after its await: the two post-steps
loadAllResume(defined, links) ==
  /\ page = "ready"
  /\ lpc = "awaiting"
  /\ allSettled
  /\ lpc' = "done"
  /\ flowbite' = defined
  /\ navLinks' = links
  /\ active' = highlightActiveNav(links)
  /\ trace' = trace \o <<initFlowbite(defined), <<"highlightActiveNav">> >>
  /\ UNCHANGED <<cst, placeholder, content>>
  /\ UNCHANGED i18nVars

\* a page script or the language switcher calls i18n.switchLanguage
SwitchLanguage(targetLang) ==
  /\ page = "ready"
  /\ switchLanguage(targetLang)
  /\ UNCHANGED <<pathname, hash, navigatorLanguage, storageOK, page>>
  /\ UNCHANGED loaderVars

\* the pending navigation commits: this page is unloaded
Unload ==
  /\ page = "ready"
  /\ pending.kind # "none"
  /\ IF StartsWith(pending.url, <<"/", "/">>)
     THEN /\ page' = "external"
          /\ pathname' = Root
          /\ hash' = <<>>
          /\ pending' = NoNavigation
          /\ warned' = FALSE
          /\ raised' = FALSE
          /\ FreshLoader
     ELSE LoadPage(UrlPath(pending.url), UrlHash(pending.url))
  /\ UNCHANGED <<navigatorLanguage, storage, storageOK>>

LinkSets == {{}, NavTags}

\* i18n.js on its own
NextI18n ==
  \/ \E p \in Paths, h \in Hashes : Visit(p, h)
  \/ \E t \in NavigatorLanguages : SetNavigatorLanguage(t)
  \/ I18nListener
  \/ \E l \in LangArgs : SwitchLanguage(l)
  \/ Unload

SpecI18n == Init /\ [][NextI18n]_vars

\* components.js on its own: one page load
NextLoader ==
  \/ \E found \in [Components -> BOOLEAN] : ComponentsListener(found)
  \/ \E c \in Components, http \in {"reject", "404", "200"} : FetchSettled(c, http)
  \/ \E c \in Components, ok \in BOOLEAN : TextSettled(c, ok)
  \/ \E defined \in BOOLEAN, links \in LinkSets : loadAllResume(defined, links)

InitLoader == Init /\ hash = <<>> /\ navigatorLanguage = <<>> /\ storageOK

SpecLoader == InitLoader /\ [][NextLoader]_vars

\* the page has finished loading and is not navigating away, or the site was left
Quiet == (lpc = "done" /\ pending.kind = "none") \/ page = "external"

\* a page that carries both scripts; the user moves on from a page that has settled,
\* changes the browser's language between page loads, and switches to supported locales
Next ==
  \/ \E p \in Paths, h \in Hashes : Quiet /\ Visit(p, h)
  \/ \E t \in NavigatorLanguages : page = "loading" /\ SetNavigatorLanguage(t)
  \/ \E found \in [Components -> BOOLEAN] : DOMContentLoaded(found)
  \/ \E c \in Components, http \in {"reject", "404", "200"} : FetchSettled(c, http)
  \/ \E c \in Components, ok \in BOOLEAN : TextSettled(c, ok)
  \/ \E defined \in BOOLEAN, links \in LinkSets : loadAllResume(defined, links)
  \/ \E l \in LANGUAGES : SwitchLanguage(l)
  \/ Unload

Spec == Init /\ [][Next]_vars

----------------------------------------------------------------------------
(* Claims about i18n.js, checked under SpecI18n *)

\* C1 (as claimed): on a page with an empty hash, for each supported locale L the
\* URL that buildLanguageURL(L) returns is a path that getLanguageFromURL
\* resolves to L, whatever the current path is.
C1_RoundTrip ==
  hash = <<>> =>
    \A L \in LANGUAGES :
      getLanguageFromURL(UrlPath(buildLanguageURL(L, pathname, hash))) = L

\* C2: shouldAutoRedirect is true exactly when no preference is persisted, the
\* path resolves to the default locale and the browser locale is the non-default
\* one; so it is false whenever a preference is persisted.
C2_AutoRedirectTruthTable ==
  shouldAutoRedirect <=>
    (storage = Null /\ getLanguageFromURL(pathname) = DEFAULT_LANGUAGE
                    /\ getBrowserLanguage # DEFAULT_LANGUAGE)

\* init acted on a true shouldAutoRedirect: the redirect is under way
C2_Witness ==
  page = "ready" /\ pending.kind = "replace" /\ shouldAutoRedirect

\* C3: once a preference is persisted, no step starts an auto-redirect
\* (location.replace), on any path and with any browser language.
C3_PreferenceStopsRedirect ==
  [][storage # Null => ~(pending'.kind = "replace" /\ pending' # pending)]_vars

\* a page of the default locale was loaded under a persisted preference for English
\* (a switch made on this page would have left a navigation pending) and stays put
C3_Witness ==
  /\ page = "ready" /\ pending.kind = "none"
  /\ storage = "en" /\ getLanguageFromURL(pathname) = "ja"
  /\ getBrowserLanguage = "en"

\* C7: a preference that is present changes only in a step of switchLanguage,
\* to the locale it was called with; a page load never changes it.
C7_OnlySwitchOverwrites ==
  [][(storage # Null /\ storage' # storage)
       => (storage' \in LANGUAGES /\ SwitchLanguage(storage'))]_vars

\* an English page was loaded under a persisted preference for Japanese, which init kept
C7_Witness ==
  /\ page = "ready" /\ pending.kind = "none"
  /\ storage = "ja" /\ getLanguageFromURL(pathname) = "en"

\* the page named by the current path, with the /en prefix taken off
C8_SamePageJa ==
  IF pathname \in {EnBare, EnRoot} THEN Root
  ELSE IF StartsWith(pathname, EnRoot) THEN SubSeq(pathname, 4, Len(pathname))
  ELSE pathname

\* C8: buildLanguageURL names the same page in the target locale and appends the
\* hash unchanged: "/en" + page for en ("/en/" for the root, never the bare "/en"),
\* the page itself for ja; /services/ <-> /en/services/ and / <-> /en/.
C8_BuildLanguageURL ==
  LET en == buildLanguageURL("en", pathname, hash)
      ja == buildLanguageURL("ja", pathname, hash)
  IN /\ en = EnBare \o C8_SamePageJa \o hash
     /\ ja = C8_SamePageJa \o hash
     /\ UrlPath(en) # EnBare
     /\ UrlHash(en) = hash /\ UrlHash(ja) = hash
     /\ pathname = ServicesPath => en = EnBare \o ServicesPath \o hash
     /\ pathname = EnBare \o ServicesPath => ja = ServicesPath \o hash
     /\ pathname = Root => en = EnRoot \o hash
     /\ pathname \in {EnBare, EnRoot} => ja = Root \o hash
     /\ pending.kind = "href" => pending.url \in {en, ja}

\* the switch from /services/#a to English is under way
C8_Witness ==
  /\ pathname = ServicesPath /\ hash = <<"#", "a">>
  /\ pending = Navigation("href", EnBare \o ServicesPath \o <<"#", "a">>)

\* the navigation switchLanguage(l) starts, if any
C10_Navigates(l) ==
  IF buildLanguageURL(l, pathname, hash) # pathname \o hash
  THEN pending' = Navigation("href", buildLanguageURL(l, pathname, hash))
  ELSE pending' = pending

\* C10 (as claimed): switchLanguage(L) with a supported L always leaves L as the
\* persisted preference, and navigates (location.href) to buildLanguageURL(L)
\* exactly when that URL differs from pathname + hash.
C10_SwitchAlwaysWrites ==
  [][\A l \in LANGUAGES :
       SwitchLanguage(l) => (storage' = l /\ C10_Navigates(l))]_vars

\* C10 (amended): switchLanguage(L) with a supported L leaves L as the persisted
\* preference when storage can be written, and leaves the preference as it was
\* when the write throws; in both cases it navigates (location.href) to
\* buildLanguageURL(L) exactly when that URL differs from pathname + hash.
C10_SwitchWritesIfWritable ==
  [][\A l \in LANGUAGES :
       SwitchLanguage(l)
         => /\ storage' = (IF storageOK THEN l ELSE storage)
            /\ C10_Navigates(l)]_vars

\* a switch to the other locale wrote the preference and is navigating there
C10_Witness ==
  /\ page = "ready" /\ storageOK /\ pending.kind = "href"
  /\ storage = getLanguageFromURL(UrlPath(pending.url))
  /\ storage # getLanguageFromURL(pathname)

\* C11: switchLanguage called with a locale code outside LANGUAGES leaves the
\* persisted preference as it was, starts no navigation (a navigation already
\* pending stays as it is) and does not end with an exception.
C11_UnsupportedSwitchIgnored ==
  [][\A l \in LangArgs \ LANGUAGES :
       SwitchLanguage(l) => (storage' = storage /\ pending' = pending /\ ~raised')]_vars

\* switchLanguage was called with an unsupported code on a page loaded under a
\* preference for English: the warning is logged, nothing else happened
C11_Witness ==
  /\ page = "ready" /\ warned
  /\ storage = "en" /\ pending.kind = "none"

\* the redirect init starts: location.replace to the same page under /en, hash kept
C12_Redirect ==
  pending' = Navigation("replace", EnBare \o C8_SamePageJa \o hash)

\* C12 (as claimed): a page load does one of two things. If shouldAutoRedirect
\* holds, init starts one location.replace to the English equivalent of the
\* current URL and writes no preference; otherwise it starts no navigation, the
\* locale of the path is the preference after init exactly when none existed
\* before, and handleAutoRedirect has no effect.
C12_InitRedirectsOrRecords ==
  [][I18nListener =>
       IF shouldAutoRedirect
       THEN C12_Redirect /\ storage' = storage
       ELSE /\ pending' = pending
            /\ handleAutoRedirect = pending
            /\ storage' = IF storage = Null THEN getLanguageFromURL(pathname)
                          ELSE storage]_vars

\* C12 (amended): as above, except that the first-visit write changes the
\* preference only when storage can be written; when the write throws, init
\* still completes and the preference stays absent.
C12_InitRedirectsOrRecordsIfWritable ==
  [][I18nListener =>
       IF shouldAutoRedirect
       THEN C12_Redirect /\ storage' = storage
       ELSE /\ pending' = pending
            /\ handleAutoRedirect = pending
            /\ storage' = IF storage = Null /\ storageOK
                          THEN getLanguageFromURL(pathname)
                          ELSE storage
            /\ ~raised']_vars

\* the first visit of /#a with an English browser: init started the redirect to
\* /en/#a and recorded no preference
C12_Witness ==
  /\ page = "ready" /\ pathname = Root /\ hash = <<"#", "a">>
  /\ pending = Navigation("replace", EnRoot \o <<"#", "a">>)
  /\ storage = Null /\ storageOK

\* C14: from empty storage, after any page loads on any paths and any calls of
\* switchLanguage with any argument, the item under the preference key is
\* absent or one of the supported codes ja and en.
C14_StoredValueSupported ==
  storage \in LANGUAGES \cup {Null}

\* a page loaded on a first visit recorded ja, and a call of switchLanguage with an
\* unsupported code on that page left it there
C14_Witness ==
  /\ page = "ready" /\ warned
  /\ storage = "ja" /\ getLanguageFromURL(pathname) = "ja"

\* C16: no operation of the locale resolver ends with an exception when a browser
\* capability is missing: with storage unavailable getSavedLanguage returns null
\* and saveLanguage changes nothing, with no navigator language getBrowserLanguage
\* returns the default locale, and every init and switchLanguage that ran on the
\* page (shouldAutoRedirect within init) completed normally.
C16_CapabilityFailuresContained ==
  /\ ~raised
  /\ ~getSavedLanguageOutcome.raised
  /\ ~initRaises
  /\ \A l \in LangArgs : ~saveLanguageOutcome(l).raised
  /\ ~storageOK =>
       /\ getSavedLanguage = Null
       /\ storage = Null
       /\ \A l \in LangArgs : saveLanguage(l) = storage
  /\ navigatorLanguage = <<>> => getBrowserLanguage = DEFAULT_LANGUAGE

\* without storage and without a navigator language, init ran and switchLanguage
\* then started its navigation
C16_Witness ==
  /\ ~storageOK /\ navigatorLanguage = <<>>
  /\ page = "ready" /\ pending.kind = "href"

\* the navigation that commits is the one switchLanguage('ja') started on an English
\* page, and it leads to a path of the default locale
C17_SwitchToJaCommits ==
  /\ Unload
  /\ getLanguageFromURL(pathname) = "en"
  /\ pending = Navigation("href", buildLanguageURL("ja", pathname, hash))
  /\ page' = "loading" /\ getLanguageFromURL(pathname') = "ja"

\* C17 (as claimed): when the navigation of switchLanguage('ja') from an English
\* page arrives on the default-locale path, the page load there does not
\* auto-redirect to English, whatever the browser language is and whether or
\* not storage is available.
C17_ChoiceOfJaRespected ==
  [][C17_SwitchToJaCommits => ~shouldAutoRedirect']_vars

\* C18: auto-redirect never loops. The target of every auto-redirect resolves to
\* the English locale; on a path that resolves to English shouldAutoRedirect is
\* false whatever storage and the browser language are; so when an auto-redirect
\* commits, the page load it leads to is on an English path and does not
\* auto-redirect again, and a chain of page loads holds at most one auto-redirect.
C18_AutoRedirectNeverLoops ==
  /\ [](pending.kind = "replace" =>
          getLanguageFromURL(UrlPath(pending.url)) = "en")
  /\ [](getLanguageFromURL(pathname) = "en" =>
          (~shouldAutoRedirect /\ handleAutoRedirect = pending))
  /\ [][(Unload /\ pending.kind = "replace") =>
          /\ page' = "loading"
          /\ getLanguageFromURL(pathname') = "en"
          /\ pending'.kind = "none"
          /\ ~shouldAutoRedirect']_vars

\* without storage, init has started the redirect of a first visit with an English browser
C18_Witness ==
  /\ ~storageOK /\ getBrowserLanguage = "en"
  /\ page = "ready" /\ pending.kind = "replace"
  /\ getLanguageFromURL(UrlPath(pending.url)) = "en"

----------------------------------------------------------------------------
(* Claims about components.js, checked under SpecLoader *)

\* how often the loader did e on this page
Count(e) == Cardinality({i \in 1..Len(trace) : trace[i] = e})

\* the position of e in the trace, 0 when the loader has not done e
Position(e) ==
  IF \E i \in 1..Len(trace) : trace[i] = e
  THEN CHOOSE i \in 1..Len(trace) : trace[i] = e
  ELSE 0

\* the placeholder of c was found, its fetch answered 200 and its body arrived
Succeeded(c) == placeholder[c] /\ cst[c].http = "200" /\ cst[c].body = "ok"

\* the load of c is over, one way or the other
Over(c) ==
  \/ cst[c].st = "missing" /\ ~placeholder[c]
  \/ cst[c].http \in {"reject", "404"}
  \/ cst[c].http = "200" /\ cst[c].body \in {"ok", "reject"}

\* C4: whatever the outcome of each component, a placeholder holds the fetched
\* markup only if its own load succeeded and is otherwise as the page shipped it;
\* once loadAll is through, every component's load is over, each successful one is
\* injected, and initFlowbite and highlightActiveNav have each run exactly once.
C4_LoadAllIsolatesFailures ==
  /\ \A c \in Components :
       content[c] = Original \/ (Succeeded(c) /\ content[c] = Markup(cst[c].url))
  /\ Count(<<"highlightActiveNav">>) <= 1
  /\ Count(<<"initFlowbite">>) + Count(<<"initFlowbite", "flowbite">>) <= 1
  /\ lpc = "done" =>
       /\ \A c \in Components : Over(c) /\ (Succeeded(c) => content[c] # Original)
       /\ Count(<<"highlightActiveNav">>) = 1
       /\ Count(<<"initFlowbite">>) + Count(<<"initFlowbite", "flowbite">>) = 1

\* loadAll is through after the header's fetch answered 404 and the footer loaded
C4_Witness ==
  /\ lpc = "done"
  /\ cst["header"].http = "404" /\ content["header"] = Original
  /\ Succeeded("footer") /\ content["footer"] # Original

\* C6: no fetch has settled before loadComponent was called for every component
\* (so every fetch was issued); initFlowbite and then highlightActiveNav run only
\* when every component's load is over, and nothing is injected after them.
C6_FetchesOverlapPostStepsLast ==
  LET f == Position(<<"initFlowbite">>) + Position(<<"initFlowbite", "flowbite">>)
      h == Position(<<"highlightActiveNav">>)
  IN /\ \A c, d \in Components : cst[c].http # "none" => cst[d].st # "idle"
     /\ \A c \in Components :
          cst[c].st \in {"fetching", "reading", "failed", "loaded"}
            => Position(<<"fetch", c>>) > 0
     /\ \A c, d \in Components :
          Position(<<"innerHTML", c>>) > 0 /\ Position(<<"fetch", d>>) > 0
            => Position(<<"fetch", d>>) < Position(<<"innerHTML", c>>)
     /\ (f > 0 \/ h > 0 \/ lpc = "done") =>
          /\ \A c \in Components : Over(c)
          /\ f > 0 /\ h = f + 1 /\ h = Len(trace)

\* both fragments loaded, the footer's before the header's, and the post-steps ran
C6_Witness ==
  /\ lpc = "done"
  /\ Position(<<"innerHTML", "footer">>) > 0
  /\ Position(<<"innerHTML", "footer">>) < Position(<<"innerHTML", "header">>)

\* the path highlightActiveNav compares: the /en prefix of an English page taken off
C9_Normalized == getRelativePath(pathname)

\* C9 (as claimed): a link tagged X is marked iff X is 'home' and the normalized
\* path is '/', or the normalized path contains '/pages/X/'.
C9_ActiveIffHomeRootOrPage ==
  lpc = "done" =>
    \A X \in navLinks :
      X \in active <=>
        \/ X = Home /\ C9_Normalized = Root
        \/ Includes(C9_Normalized, <<"/", "p", "a", "g", "e", "s", "/">> \o X \o <<"/">>)

\* C9 (amended): a link tagged X is marked iff X is 'home' and the normalized path
\* is '/' or '/index.html', or X is not empty and the normalized path contains
\* '/pages/X/'; only links found in the document are marked.
C9_ActiveIffHomeRootIndexOrPage ==
  /\ active \subseteq navLinks
  /\ lpc = "done" =>
       \A X \in navLinks :
         X \in active <=>
           \/ X = Home /\ C9_Normalized \in {Root, IndexPath}
           \/ /\ X # <<>>
              /\ Includes(C9_Normalized, <<"/", "p", "a", "g", "e", "s", "/">> \o X \o <<"/">>)

\* on /en/pages/about/ the link tagged about is marked and the one tagged home is not
C9_Witness ==
  /\ lpc = "done" /\ pathname = EnBare \o AboutPath
  /\ About \in active /\ Home \in navLinks \ active

\* C13: componentLoaded is dispatched for a component exactly once if its fragment
\* was fetched with success and injected and not at all otherwise (placeholder
\* missing, fetch rejected, status not ok, body not read); the dispatch comes after
\* the assignment to the placeholder's innerHTML, which then holds the fragment.
C13_EventOncePerInjection ==
  \A c \in Components :
    /\ Count(<<"componentLoaded", c>>) = IF Succeeded(c) THEN 1 ELSE 0
    /\ Count(<<"componentLoaded", c>>) = Count(<<"innerHTML", c>>)
    /\ Succeeded(c) =>
         /\ 0 < Position(<<"innerHTML", c>>)
         /\ Position(<<"innerHTML", c>>) < Position(<<"componentLoaded", c>>)
         /\ content[c] = Markup(cst[c].url)
    /\ (~placeholder[c] \/ cst[c].http \in {"reject", "404"} \/ cst[c].body = "reject")
         => Position(<<"componentLoaded", c>>) = 0

\* the header was injected and announced; the footer's fetch answered 404 and
\* nothing was announced for it
C13_Witness ==
  /\ Count(<<"componentLoaded", "header">>) = 1 /\ content["header"] # Original
  /\ cst["footer"].http = "404" /\ Count(<<"componentLoaded", "footer">>) = 0

\* the URL of the fragment of component c on the page at path
C15_FragmentURL(c, path) ==
  IF path = EnBare \/ StartsWith(path, EnRoot)
  THEN <<"/components", "/", c, "-en", ".html">>
  ELSE <<"/components", "/", c, ".html">>

\* C15: the file fetched for a registered component is <component>.html on a page
\* of the default locale and <component>-en.html on an English page (path /en or
\* under /en/); for a name that is not registered getComponentFile returns null
\* and loadComponent returns without a fetch.
C15_FragmentFileByLocale ==
  /\ \A c \in Components :
       /\ componentsPath \o <<"/">> \o getComponentFile(c, pathname)
            = C15_FragmentURL(c, pathname)
       /\ Position(<<"fetch", c>>) > 0 => cst[c].url = C15_FragmentURL(c, pathname)
       /\ content[c] # Original => content[c] = Markup(C15_FragmentURL(c, pathname))
  /\ getComponentFile("sidebar", pathname) = <<Null>>
  /\ loadComponentStart("sidebar", TRUE) = [NotCalled EXCEPT !.st = "unknown"]

\* on the English services page the header's English fragment was fetched and injected
C15_Witness ==
  /\ pathname = EnBare \o ServicesPath
  /\ cst["header"].url = <<"/components", "/", "header", "-en", ".html">>
  /\ content["header"] = Markup(cst["header"].url)

\* C19: the loader and the locale resolver agree on the path of every page:
\* isEnglishPage() is true exactly when getLanguageFromURL() returns 'en', the path
\* highlightActiveNav compares is the one getRelativePath() returns, and so the
\* links it marked are those that match the resolver's relative path.
C19_LoaderAgreesWithResolver ==
  /\ isEnglishPage(pathname) <=> (getLanguageFromURL(pathname) = "en")
  /\ normalizedPath(pathname) = getRelativePath(pathname)
  /\ lpc = "done" =>
       active = {X \in navLinks : isActive(X, getRelativePath(pathname))}

\* on the bare path /en, which both take for the English home page, loadAll is
\* through and the link tagged home is marked
C19_Witness ==
  /\ pathname = EnBare /\ lpc = "done"
  /\ getRelativePath(pathname) = Root /\ Home \in active

----------------------------------------------------------------------------
(* Claims about a page that carries both scripts, checked under Spec *)

\* C5 (as claimed): on a page load where i18n.init started an auto-redirect the
\* component loader does nothing: loadAll is not called, no fetch is issued and
\* no placeholder is modified.
C5_RedirectStopsLoader ==
  pending.kind = "replace" =>
    /\ lpc = "idle"
    /\ \A c \in Components : Position(<<"fetch", c>>) = 0 /\ content[c] = Original

====
